---- MODULE Spec2Model ----
(***************************************************************************)
(* FirstConsistentlyInteractiveDetector                                    *)
(* (src/src/firstConsistentlyInteractiveDetector.js) as a state machine.   *)
(*                                                                         *)
(* Time is counted in units of 1000 ms on the performance.now() clock, so  *)
(* the retry delay of 1000 ms is 1 and the quiet window of 5000 ms is 5.   *)
(* Every handler of the class is a pure operator from the world record     *)
(* (the detector's fields and the host's timers, promises and clock) to    *)
(* the world record after the handler has run to completion; an action     *)
(* applies one handler to the current world.  The messages given to log()  *)
(* change no state and are left out.                                       *)
(***************************************************************************)
EXTENDS Integers, FiniteSets, Sequences

\* ------------------------------------------------------------------ bounds
\* The clock runs from 0 to MaxTime.
MaxTime == 6
\* At most MaxCalls invocations of a stored resolver in one run.
MaxCalls == 2
\* At most MaxPromises calls of getFirstConsistentlyInteractive in one run.
MaxPromises == 1

\* --------------------------------------------------------- program values
\* JavaScript null (absent minimum value, resolver, timer id, engine result).
null == -1
\* The initial _timerActivationTime, -Infinity: below every timestamp.
NegInfinity == -2
\* A promise that is not fulfilled yet.
Pending == -3
\* rescheduleTimer(performance.now() + 1000): the retry delay.
RetryDelay == 1
\* lastBusy + 5000: the quiet window.
QuietWindow == 5
\* performance.timing.navigationStart, an epoch timestamp in the same units.
navigationStart == 100
\* The completed-request log: never written by the detector.
_networkRequests == <<>>

\* Identifiers of the requests the fetch patch reports.
RequestIds == {"r1", "r2", "r3"}
\* The clock readings at which the page starts requests.
RequestStartTimes == {0, 1}
\* The clock readings at which the document may finish parsing.
DomContentLoadedTimes == {1}
\* The timestamps passed to rescheduleTimer through the public API.
RescheduleTimes == {0, 1, MaxTime}
\* Every value the engine can return: null or a timestamp.
EngineValues == {null} \cup (0..MaxTime)
\* Every timestamp of the run.
Timestamps == 0..MaxTime
\* Values passed as config.minValue or to setMinValue.
MinValues == {0, 20}
\* config.minValue, null standing for a config without minValue.
ConfigMinValues == {null} \cup MinValues

VARIABLES
  \* the detector's fields
  _minValue,
  _incompleteJSInitiatedRequestStartTimes,
  _timerId,
  _timerActivationTime,
  _scheduleTimerTasks,
  _firstConsistentlyInteractiveResolver,
  \* the host
  now,                      \* performance.now()
  readyState,               \* document.readyState
  domContentLoadedEventEnd, \* performance.timing.domContentLoadedEventEnd
  timers,                   \* live setTimeout timers: [id, due]
  loadListeners,            \* 'load' listeners registered on window
  promises,                 \* the promises returned, Pending or their value
  \* what the run has shown so far
  resolverCalls,            \* invocations of a stored resolver
  disabledFrom,             \* where disable() was last called through the
                            \* public API: "Scheduling", "NotScheduling", or
                            \* "never" if it was not called
  timestampReturned         \* whether the engine has returned a timestamp
                            \* to a check that held a resolver

vars == <<_minValue, _incompleteJSInitiatedRequestStartTimes, _timerId,
          _timerActivationTime, _scheduleTimerTasks,
          _firstConsistentlyInteractiveResolver, now, readyState,
          domContentLoadedEventEnd, timers, loadListeners,
          promises, resolverCalls, disabledFrom, timestampReturned>>

\* The current world as one record.
World ==
  [_minValue |-> _minValue,
   _incompleteJSInitiatedRequestStartTimes |->
       _incompleteJSInitiatedRequestStartTimes,
   _timerId |-> _timerId,
   _timerActivationTime |-> _timerActivationTime,
   _scheduleTimerTasks |-> _scheduleTimerTasks,
   _firstConsistentlyInteractiveResolver |->
       _firstConsistentlyInteractiveResolver,
   now |-> now,
   readyState |-> readyState,
   domContentLoadedEventEnd |-> domContentLoadedEventEnd,
   timers |-> timers,
   loadListeners |-> loadListeners,
   promises |-> promises,
   resolverCalls |-> resolverCalls,
   disabledFrom |-> disabledFrom,
   timestampReturned |-> timestampReturned]

\* The next state is the world w.
Apply(w) ==
  /\ _minValue' = w._minValue
  /\ _incompleteJSInitiatedRequestStartTimes' =
         w._incompleteJSInitiatedRequestStartTimes
  /\ _timerId' = w._timerId
  /\ _timerActivationTime' = w._timerActivationTime
  /\ _scheduleTimerTasks' = w._scheduleTimerTasks
  /\ _firstConsistentlyInteractiveResolver' =
         w._firstConsistentlyInteractiveResolver
  /\ now' = w.now
  /\ readyState' = w.readyState
  /\ domContentLoadedEventEnd' = w.domContentLoadedEventEnd
  /\ timers' = w.timers
  /\ loadListeners' = w.loadListeners
  /\ promises' = w.promises
  /\ resolverCalls' = w.resolverCalls
  /\ disabledFrom' = w.disabledFrom
  /\ timestampReturned' = w.timestampReturned

\* ---------------------------------------------------------------- helpers
Max(a, b) == IF a >= b THEN a ELSE b

\* JavaScript truthiness of a number or null: null and 0 are falsy.
Truthy(v) == v # null /\ v # 0

\* clearTimeout(id): the timer with that id, if live, is cancelled.
clearTimeout(ts, id) == {tm \in ts : tm.id # id}

\* Timer ids are opaque handles; the model names each timer by its age: the
\* timer setTimeout has just made is 1, and every older live timer moves up
\* by one.  The detector only ever holds the id of the newest timer.
NewestTimerId == 1

\* setTimeout(callback, delay) at clock reading t: a new live timer, which
\* fires no earlier than delay from t (at once when delay is negative).
setTimeout(ts, delay, t) ==
  {[tm EXCEPT !.id = @ + 1] : tm \in ts}
    \cup {[id |-> NewestTimerId, due |-> t + Max(0, delay)]}

\* ------------------------------------------------- the detection engine
\* computeLastKnownNetwork2Busy(incompleteRequestStarts, networkRequests):
\* the last moment more than 2 requests were in flight, else the baseline 0.
\* With an empty completed-request log, more than 2 requests are in flight
\* exactly when more than 2 are incomplete, and then they are in flight now.
computeLastKnownNetwork2Busy(incompleteRequestStarts, observed, currentTime) ==
  IF Len(incompleteRequestStarts) > 2 THEN currentTime ELSE 0

\* computeFirstConsistentlyInteractive(searchStart, minValue, lastBusy,
\* currentTime, []): the results the engine's contract allows.  It may
\* always find nothing (null); a timestamp t it returns is not before
\* searchStart nor before lastBusy, and its quiet window [t, t + 5000] has
\* elapsed by currentTime.  minValue puts no bound on t here: Scenario A
\* has the engine return searchStart = 0 with minValue = 500.
computeFirstConsistentlyInteractive(searchStart, minValue, lastBusy, currentTime) ==
  {null} \cup {t \in 0..currentTime :
                 /\ t >= searchStart
                 /\ t >= lastBusy
                 /\ t + QuietWindow <= currentTime}

\* --------------------------------------------------------- the detector
\* get _incompleteRequestStarts: the start times of the in-flight requests,
\* as a sequence (a copy of the map's values).
RECURSIVE ValuesOf(_)
ValuesOf(m) ==
  IF DOMAIN m = {} THEN <<>>
  ELSE LET k == CHOOSE x \in DOMAIN m : TRUE
       IN <<m[k]>> \o ValuesOf([x \in DOMAIN m \ {k} |-> m[x]])

_incompleteRequestStarts(w) ==
  ValuesOf(w._incompleteJSInitiatedRequestStartTimes)

\* rescheduleTimer as it would be without the comparison of line 109: every
\* call of an enabled detector re-arms the timer.
rescheduleTimer_NoPostponeCheck(w, earliestTime) ==
  IF ~w._scheduleTimerTasks
  THEN w
  ELSE LET cleared == clearTimeout(w.timers, w._timerId)
       IN [w EXCEPT !.timers = setTimeout(cleared, earliestTime - w.now, w.now),
                    !._timerId = NewestTimerId,
                    !._timerActivationTime = earliestTime]

\* rescheduleTimer as it would be if line 109 compared earliestTime with the
\* current time instead of the committed activation time.
rescheduleTimer_ComparesNow(w, earliestTime) ==
  IF ~w._scheduleTimerTasks
  THEN w
  ELSE IF w.now > earliestTime
  THEN w
  ELSE LET cleared == clearTimeout(w.timers, w._timerId)
       IN [w EXCEPT !.timers = setTimeout(cleared, earliestTime - w.now, w.now),
                    !._timerId = NewestTimerId,
                    !._timerActivationTime = earliestTime]

\* rescheduleTimer as it would be without the enabled check of line 98.
rescheduleTimer_NoEnabledCheck(w, earliestTime) ==
  IF w._timerActivationTime > earliestTime
  THEN w
  ELSE LET cleared == clearTimeout(w.timers, w._timerId)
       IN [w EXCEPT !.timers = setTimeout(cleared, earliestTime - w.now, w.now),
                    !._timerId = NewestTimerId,
                    !._timerActivationTime = earliestTime]

\* rescheduleTimer as it would be without the clearTimeout of line 115.
rescheduleTimer_NoClearTimeout(w, earliestTime) ==
  IF ~w._scheduleTimerTasks
  THEN w
  ELSE IF w._timerActivationTime > earliestTime
  THEN w
  ELSE [w EXCEPT !.timers = setTimeout(w.timers, earliestTime - w.now, w.now),
                 !._timerId = NewestTimerId,
                 !._timerActivationTime = earliestTime]

\* rescheduleTimer(earliestTime)
rescheduleTimer(w, earliestTime) ==
  IF ~w._scheduleTimerTasks
  THEN w
  ELSE IF w._timerActivationTime > earliestTime
  THEN w
  ELSE LET cleared == clearTimeout(w.timers, w._timerId)
       IN [w EXCEPT !.timers = setTimeout(cleared, earliestTime - w.now, w.now),
                    !._timerId = NewestTimerId,
                    !._timerActivationTime = earliestTime]

\* startSchedulingTimerTasks as it would be if enabling started the schedule
\* afresh, forgetting the committed activation time.
startSchedulingTimerTasks_ResetsActivationTime(w) ==
  rescheduleTimer([w EXCEPT !._scheduleTimerTasks = TRUE,
                            !._timerActivationTime = NegInfinity], 0)

\* startSchedulingTimerTasks()
startSchedulingTimerTasks(w) ==
  rescheduleTimer([w EXCEPT !._scheduleTimerTasks = TRUE], 0)

\* setMinValue(minValue)
setMinValue(w, minValue) == [w EXCEPT !._minValue = minValue]

\* disable(); _unregisterListeners() removes nothing.
disable(w) ==
  [w EXCEPT !.timers = clearTimeout(w.timers, w._timerId),
            !._scheduleTimerTasks = FALSE]

\* _beforeJSInitiatedRequestCallback(requestId): Map.set
_beforeJSInitiatedRequestCallback(w, requestId) ==
  LET m == w._incompleteJSInitiatedRequestStartTimes
  IN [w EXCEPT !._incompleteJSInitiatedRequestStartTimes =
                   [x \in DOMAIN m \cup {requestId} |->
                      IF x = requestId THEN w.now ELSE m[x]]]

\* _afterJSInitiatedRequestCallback as it would be with Map.clear() in place
\* of Map.delete(requestId).
_afterJSInitiatedRequestCallback_ClearsAll(w, requestId) ==
  [w EXCEPT !._incompleteJSInitiatedRequestStartTimes = <<>>]

\* _afterJSInitiatedRequestCallback as it would be if a completed request
\* rescheduled the check to the end of its own quiet window.
_afterJSInitiatedRequestCallback_Reschedules(w, requestId) ==
  LET m == w._incompleteJSInitiatedRequestStartTimes
  IN rescheduleTimer_NoPostponeCheck(
       [w EXCEPT !._incompleteJSInitiatedRequestStartTimes =
                     [x \in DOMAIN m \ {requestId} |-> m[x]]],
       w.now + QuietWindow)

\* _afterJSInitiatedRequestCallback(requestId): Map.delete
_afterJSInitiatedRequestCallback(w, requestId) ==
  LET m == w._incompleteJSInitiatedRequestStartTimes
  IN [w EXCEPT !._incompleteJSInitiatedRequestStartTimes =
                   [x \in DOMAIN m \ {requestId} |-> m[x]]]

\* _getMinValue()
_getMinValue(w) ==
  IF Truthy(w._minValue) THEN w._minValue
  ELSE IF w.domContentLoadedEventEnd # 0
  THEN w.domContentLoadedEventEnd - navigationStart
  ELSE null

\* firstPaint in _checkTTI, in a browser without window.chrome.loadTimes.
firstPaint(w) == 0

\* searchStart in _checkTTI
searchStart(w) ==
  IF firstPaint(w) # 0 THEN firstPaint(w)
  ELSE w.domContentLoadedEventEnd - navigationStart

\* lastBusy in _checkTTI
lastBusy(w) ==
  computeLastKnownNetwork2Busy(_incompleteRequestStarts(w), _networkRequests,
                               w.now)

\* The results the engine may give to the check that runs in world w.
EngineResults(w) ==
  computeFirstConsistentlyInteractive(searchStart(w), _getMinValue(w),
                                      lastBusy(w), w.now)

\* The resolve function of promise p called with value: the first call
\* fulfills the promise, later calls change nothing.
resolve(w, p, value) ==
  [w EXCEPT !.promises[p] = IF @ = Pending THEN value ELSE @,
            !.resolverCalls = @ + 1]

\* _checkTTI as it would be if the retry of line 263 used the quiet window
\* of 5000 ms as its delay.
_checkTTI_RetriesAfterQuietWindow(w, maybeFCI) ==
  LET minValue == _getMinValue(w)
      w1 == IF minValue = null
            THEN rescheduleTimer(w, Max(lastBusy(w) + QuietWindow,
                                         w.now + RetryDelay))
            ELSE w
  IN IF Truthy(maybeFCI)
     THEN IF w1._firstConsistentlyInteractiveResolver = null
          THEN w1
          ELSE rescheduleTimer(
                 disable(resolve(w1, w1._firstConsistentlyInteractiveResolver,
                                 maybeFCI)),
                 w.now + QuietWindow)
     ELSE rescheduleTimer(w1, w.now + QuietWindow)

\* _checkTTI(), the engine returning maybeFCI.  Calling a null resolver
\* throws a TypeError, which ends the handler there.
_checkTTI(w, maybeFCI) ==
  LET minValue == _getMinValue(w)
      currentTime == w.now
      w1 == IF minValue = null
            THEN rescheduleTimer(w, Max(lastBusy(w) + QuietWindow,
                                         currentTime + RetryDelay))
            ELSE w
      w2 == w1
  IN IF Truthy(maybeFCI)
     THEN IF w2._firstConsistentlyInteractiveResolver = null
          THEN w2
          ELSE rescheduleTimer(
                 disable(resolve(w2, w2._firstConsistentlyInteractiveResolver,
                                 maybeFCI)),
                 w.now + RetryDelay)
     ELSE rescheduleTimer(w2, w.now + RetryDelay)

\* getFirstConsistentlyInteractive as it would be without the test of
\* document.readyState: enabling at once on any page.
getFirstConsistentlyInteractive_IgnoresReadyState(w) ==
  startSchedulingTimerTasks(
    [w EXCEPT !.promises = Append(@, Pending),
              !._firstConsistentlyInteractiveResolver = Len(w.promises) + 1])

\* getFirstConsistentlyInteractive(): a new promise, whose resolve function
\* is stored; enabled at once on a loaded page, else on the load event.
getFirstConsistentlyInteractive(w) ==
  LET p == Len(w.promises) + 1
      w1 == [w EXCEPT !.promises = Append(@, Pending),
                      !._firstConsistentlyInteractiveResolver = p]
  IN IF w1.readyState = "complete"
     THEN startSchedulingTimerTasks(w1)
     ELSE [w1 EXCEPT !.loadListeners = @ + 1]

\* The load event: each registered listener calls startSchedulingTimerTasks.
RECURSIVE runLoadListeners(_, _)
runLoadListeners(w, n) ==
  IF n = 0 THEN w ELSE runLoadListeners(startSchedulingTimerTasks(w), n - 1)

\* --------------------------------------------------------------- actions
\* constructor(config)
Init ==
  /\ \E minValue \in ConfigMinValues :
       _minValue = IF Truthy(minValue) THEN minValue ELSE null
  /\ _incompleteJSInitiatedRequestStartTimes = <<>>
  /\ _timerId = null
  /\ _timerActivationTime = NegInfinity
  /\ _scheduleTimerTasks = FALSE
  /\ _firstConsistentlyInteractiveResolver = null
  /\ now = 0
  /\ readyState = "loading"
  /\ domContentLoadedEventEnd = 0
  /\ timers = {}
  /\ loadListeners = 0
  /\ promises = <<>>
  /\ resolverCalls = 0
  /\ disabledFrom = "never"
  /\ timestampReturned = FALSE

\* The clock advances.
Tick ==
  /\ now < MaxTime
  /\ Apply([World EXCEPT !.now = @ + 1])

\* The document finishes parsing: domContentLoadedEventEnd is set.
DomContentLoaded ==
  /\ domContentLoadedEventEnd = 0
  /\ now \in DomContentLoadedTimes
  /\ Apply([World EXCEPT !.domContentLoadedEventEnd = navigationStart + now])

\* The page finishes loading: readyState is complete and the load event
\* runs its listeners.
LoadSignal ==
  /\ readyState = "loading"
  /\ domContentLoadedEventEnd # 0
  /\ Apply(runLoadListeners([World EXCEPT !.readyState = "complete"],
                            loadListeners))

GetFirstConsistentlyInteractive ==
  /\ Len(promises) < MaxPromises
  /\ Apply(getFirstConsistentlyInteractive(World))

StartSchedulingTimerTasks ==
  /\ Apply(startSchedulingTimerTasks(World))

SetMinValue ==
  /\ \E minValue \in MinValues : Apply(setMinValue(World, minValue))

RescheduleTimer ==
  /\ \E earliestTime \in RescheduleTimes : Apply(rescheduleTimer(World, earliestTime))

Disable ==
  /\ Apply([disable(World) EXCEPT
             !.disabledFrom = IF _scheduleTimerTasks THEN "Scheduling"
                              ELSE "NotScheduling"])

BeforeRequest ==
  /\ now \in RequestStartTimes
  /\ \E requestId \in RequestIds :
    Apply(_beforeJSInitiatedRequestCallback(World, requestId))

AfterRequest ==
  /\ \E requestId \in RequestIds :
    Apply(_afterJSInitiatedRequestCallback(World, requestId))

\* A live timer whose delay has passed fires and runs _checkTTI, the engine
\* returning maybeFCI.
TimerFireReturning(maybeFCI) ==
  \E tm \in timers :
    /\ now >= tm.due
    /\ LET w == [World EXCEPT !.timers = @ \ {tm}]
       IN /\ maybeFCI \in EngineResults(w)
          /\ Apply([_checkTTI(w, maybeFCI) EXCEPT
                     !.timestampReturned =
                         \/ @
                         \/ /\ maybeFCI # null
                            /\ w._firstConsistentlyInteractiveResolver # null])

TimerFire ==
  /\ resolverCalls < MaxCalls
  /\ \E maybeFCI \in EngineValues : TimerFireReturning(maybeFCI)

\* _checkTTI() called directly, not by a timer.
ForceCheckTTIReturning(maybeFCI) ==
  /\ maybeFCI \in EngineResults(World)
  /\ Apply([_checkTTI(World, maybeFCI) EXCEPT
             !.timestampReturned =
                 \/ @
                 \/ /\ maybeFCI # null
                    /\ _firstConsistentlyInteractiveResolver # null])

ForceCheckTTI ==
  /\ resolverCalls < MaxCalls
  /\ \E maybeFCI \in EngineValues : ForceCheckTTIReturning(maybeFCI)

Next ==
  \/ TimerFire
  \/ Tick
  \/ DomContentLoaded
  \/ LoadSignal
  \/ GetFirstConsistentlyInteractive
  \/ StartSchedulingTimerTasks
  \/ SetMinValue
  \/ RescheduleTimer
  \/ Disable
  \/ BeforeRequest
  \/ AfterRequest

Spec == Init /\ [][Next]_vars

\* The public operations and host events, and _checkTTI forced directly.
NextForced ==
  \/ ForceCheckTTI
  \/ Next

SpecForced == Init /\ [][NextForced]_vars

\* A timer is due and a check may still run: the enabling condition of
\* TimerFire, every firing of which changes the set of live timers.
TimerDue ==
  /\ resolverCalls < MaxCalls
  /\ \E tm \in timers : now >= tm.due

\* The program in a run in which the public disable() is never called.
NextLive ==
  \/ TimerFire
  \/ Tick
  \/ DomContentLoaded
  \/ LoadSignal
  \/ GetFirstConsistentlyInteractive
  \/ StartSchedulingTimerTasks
  \/ SetMinValue
  \/ RescheduleTimer
  \/ BeforeRequest
  \/ AfterRequest

\* In such a run the clock keeps advancing, the load event is delivered
\* once the document has been parsed, and a timer that stays due fires:
\* weak fairness of Tick, of LoadSignal and of TimerFire, the last with its
\* enabling condition TimerDue written out.
SpecLive ==
  /\ Init
  /\ [][NextLive]_vars
  /\ WF_now(Tick)
  /\ WF_readyState(LoadSignal)
  /\ (<>[]TimerDue => []<><<TimerFire>>_vars)

\* ---------------------------------------------------------------- claims
\* The detector has resolved: a stored resolver has been invoked.
Resolved == resolverCalls >= 1

\* disable() has been called through the public API.
disableCalled == disabledFrom # "never"

\* C1: over any sequence of public operations and host events, the stored
\* resolver is invoked at most once in total.
C1_AtMostOneResolution == resolverCalls <= 1

\* C2: the check that succeeds leaves no timer armed, and from a Resolved
\* state no timer-driven _checkTTI ever runs again.
C2_NoCheckAfterResolved ==
  [][/\ (TimerFire /\ resolverCalls' > resolverCalls) => timers' = {}
     /\ Resolved => ~TimerFire]_vars

\* C3: in every state reached after disable() was called, no timer is armed
\* (so no timer-driven check can run).
C3_DisableTerminal == disableCalled => timers = {}

\* C4: _timerActivationTime never decreases, whatever operation runs.
C4_MonotonicScheduling ==
  [][_timerActivationTime' >= _timerActivationTime]_vars

\* C4 witness: the timer is armed for a time beyond 1 in a phase that
\* follows a disable() during Scheduling and a new enable.
C4_Witness ==
  /\ disabledFrom = "Scheduling"
  /\ _scheduleTimerTasks
  /\ timers # {}
  /\ _timerActivationTime >= 2

\* C5 as claimed: in an enabled detector rescheduleTimer(t) with
\* t <= _timerActivationTime, equality included, changes nothing.
C5_PostponeOnlyIncludingEqual ==
  _scheduleTimerTasks =>
    \A t \in Timestamps :
      t <= _timerActivationTime => rescheduleTimer(World, t) = World

\* C5 as amended: in an enabled detector rescheduleTimer(t) with t strictly
\* below _timerActivationTime changes nothing: the armed timer is neither
\* cancelled nor replaced and _timerActivationTime stays.
C5_PostponeOnlyStrict ==
  _scheduleTimerTasks =>
    \A t \in Timestamps :
      t < _timerActivationTime => rescheduleTimer(World, t) = World

\* C5 witness: an enabled detector with a live timer, and an earlier time
\* for which rescheduleTimer leaves that timer armed.
C5_Witness ==
  /\ _scheduleTimerTasks
  /\ timers # {}
  /\ \E t \in Timestamps :
       /\ t < _timerActivationTime
       /\ rescheduleTimer(World, t).timers = timers

\* C6: in a detector that is not enabled rescheduleTimer(t) changes nothing,
\* for every t: no timer armed or cancelled, _timerId, _timerActivationTime
\* and the pending-request map as they were.
C6_EnableBeforeSchedule ==
  ~_scheduleTimerTasks =>
    \A t \in Timestamps : rescheduleTimer(World, t) = World

\* C6 witness: a detector disabled after it was enabled, holding the id of
\* its last timer, on which rescheduleTimer of a later time changes nothing;
\* and a detector never enabled is the initial state.
C6_Witness ==
  /\ ~_scheduleTimerTasks
  /\ disabledFrom = "Scheduling"
  /\ _timerId # null
  /\ _timerActivationTime < MaxTime
  /\ rescheduleTimer(World, MaxTime)._timerId = _timerId

\* C7: a check that runs while no minimum value is available never invokes
\* the resolver, whatever the engine returns.
C7_NoResolveWithoutMinValue ==
  [][(TimerFire /\ _getMinValue(World) = null)
       => resolverCalls' = resolverCalls]_vars

\* C8: after disable() during Scheduling, a forced _checkTTI changes nothing:
\* no resolver invocation, no timer, all state as it was.
C8_ForcedCheckAfterDisableNoOp ==
  [][(/\ ForceCheckTTI
      /\ disabledFrom = "Scheduling"
      /\ ~_scheduleTimerTasks) => UNCHANGED vars]_vars

\* C9: a check of an enabled detector that has a resolver and a minimum
\* value, in which the engine returns a timestamp r (0 included), invokes
\* the resolver with r and leaves the detector Resolved and not enabled.
C9_PresentResultResolves ==
  [][\A r \in Timestamps :
       (/\ TimerFireReturning(r)
        /\ _scheduleTimerTasks
        /\ _firstConsistentlyInteractiveResolver # null
        /\ _getMinValue(World) # null)
       => /\ resolverCalls' = resolverCalls + 1
          /\ promises[_firstConsistentlyInteractiveResolver] = Pending
               => promises'[_firstConsistentlyInteractiveResolver] = r
          /\ ~_scheduleTimerTasks']_vars

\* C10: the minimum value a check uses is the override whenever one is set
\* (any number), else domContentLoadedEventEnd - navigationStart when that
\* is available, else nothing.
C10_MinValueSelection ==
  _getMinValue(World) =
    IF _minValue # null THEN _minValue
    ELSE IF domContentLoadedEventEnd # 0
    THEN domContentLoadedEventEnd - navigationStart
    ELSE null
\* C11 as claimed: startSchedulingTimerTasks() on an enabled detector changes
\* nothing, in every reachable enabled state.
C11_EnableIdempotent ==
  _scheduleTimerTasks => startSchedulingTimerTasks(World) = World

\* C11 as amended: startSchedulingTimerTasks() on an enabled detector leaves
\* the enabled flag and _timerActivationTime as they were, and changes
\* nothing at all when _timerActivationTime is above 0.
C11_EnableIdempotentAboveZero ==
  [](_scheduleTimerTasks =>
       LET w == startSchedulingTimerTasks(World)
       IN /\ w._scheduleTimerTasks
          /\ w._timerActivationTime = _timerActivationTime
          /\ _timerActivationTime > 0 => w = World)

\* C11 witness: an enabled detector whose timer is committed to a time above
\* 0, on which a second startSchedulingTimerTasks() leaves that timer armed.
C11_Witness ==
  /\ _scheduleTimerTasks
  /\ _timerActivationTime > 0
  /\ timers # {}
  /\ startSchedulingTimerTasks(World).timers = timers

\* C13: _afterJSInitiatedRequestCallback(id) removes the entry keyed by id
\* and no other, changes nothing when id is not pending, and a second call
\* changes nothing more; _beforeJSInitiatedRequestCallback(id) leaves one
\* entry for id, holding the current time, and the other entries as they
\* were; the map holds one start time per pending id.
C13_IdempotentCompletion ==
  [](LET m == _incompleteJSInitiatedRequestStartTimes
     IN /\ Len(_incompleteRequestStarts(World)) = Cardinality(DOMAIN m)
        /\ \A id \in RequestIds :
             LET a == _afterJSInitiatedRequestCallback(World, id)
                 am == a._incompleteJSInitiatedRequestStartTimes
                 b == _beforeJSInitiatedRequestCallback(World, id)
                 bm == b._incompleteJSInitiatedRequestStartTimes
             IN /\ DOMAIN am = DOMAIN m \ {id}
                /\ \A x \in DOMAIN am : am[x] = m[x]
                /\ id \notin DOMAIN m => a = World
                /\ _afterJSInitiatedRequestCallback(a, id) = a
                /\ DOMAIN bm = DOMAIN m \cup {id}
                /\ bm[id] = now
                /\ \A x \in DOMAIN bm \ {id} : bm[x] = m[x])

\* C13 witness: two requests pending with different start times, one of
\* them started before the current time, so that a repeated start would
\* overwrite it and a completion would remove it alone.
C13_Witness ==
  LET m == _incompleteJSInitiatedRequestStartTimes
  IN /\ DOMAIN m = {"r1", "r2"}
     /\ m["r1"] # m["r2"]
     /\ m["r1"] < now
     /\ _beforeJSInitiatedRequestCallback(World, "r1")
          ._incompleteJSInitiatedRequestStartTimes["r1"] = now
     /\ DOMAIN _afterJSInitiatedRequestCallback(World, "r1")
          ._incompleteJSInitiatedRequestStartTimes = {"r2"}

\* C14: at most one timer made by the detector is live in any state.
C14_SingleTimer == Cardinality(timers) <= 1

\* C14 witness: one live timer in a detector enabled again after a
\* disable() during Scheduling and postponed since by a check or a call.
C14_Witness ==
  /\ disabledFrom = "Scheduling"
  /\ _scheduleTimerTasks
  /\ Cardinality(timers) = 1
  /\ \E tm \in timers : tm.due > now /\ tm.due = _timerActivationTime

\* C15: a check of an enabled detector with a minimum value, in which the
\* engine returns nothing, leaves the detector enabled and unresolved with
\* exactly one timer, armed for now + 1000: in every state, for every timer
\* that is due, the check it would run ends that way.
C15_FixedRetryCadence ==
  [](\A tm \in timers :
       (/\ now >= tm.due
        /\ _scheduleTimerTasks
        /\ _getMinValue(World) # null)
       => LET fired == [World EXCEPT !.timers = @ \ {tm}]
              w == _checkTTI(fired, null)
          IN /\ null \in EngineResults(fired)
             /\ w._scheduleTimerTasks
             /\ w.resolverCalls = resolverCalls
             /\ w.promises = promises
             /\ w._timerActivationTime = now + RetryDelay
             /\ w.timers = {[id |-> NewestTimerId, due |-> now + RetryDelay]})

\* C15 witness: an unresolved enabled detector with a minimum value whose
\* one timer is armed for now + 1000 at a clock reading from 2 to 4, a time
\* no call of the public rescheduleTimer of this run asks for.
C15_Witness ==
  /\ _scheduleTimerTasks
  /\ resolverCalls = 0
  /\ _getMinValue(World) # null
  /\ now \in 2..4
  /\ _timerActivationTime = now + RetryDelay
  /\ timers = {[id |-> NewestTimerId, due |-> now + RetryDelay]}
\* C16: a timer-driven check that finds no minimum value ends with the next
\* check armed for exactly max(lastBusy + 5000, now + 1000).
C16_MissingBaselineSchedule ==
  [][(TimerFire /\ _getMinValue(World) = null)
     => LET target == Max(lastBusy(World) + QuietWindow, now + RetryDelay)
        IN /\ target >= now + RetryDelay
           /\ _timerActivationTime' = target
           /\ timers' = {[id |-> NewestTimerId, due |-> target]}]_vars

\* C17: the two request callbacks change the map of pending requests and
\* nothing else: the live timers, _timerId, _timerActivationTime, the
\* enabled flag and the resolver are as before.
C17_CallbacksChangeOnlyTheMap ==
  [](\A id \in RequestIds :
       /\ [_beforeJSInitiatedRequestCallback(World, id) EXCEPT
             !._incompleteJSInitiatedRequestStartTimes =
                 _incompleteJSInitiatedRequestStartTimes] = World
       /\ [_afterJSInitiatedRequestCallback(World, id) EXCEPT
             !._incompleteJSInitiatedRequestStartTimes =
                 _incompleteJSInitiatedRequestStartTimes] = World)

\* C17 witness: an enabled detector holding a resolver, with a timer live
\* and a request pending, on which a completion changes the map and leaves
\* the timer and its activation time.
C17_Witness ==
  LET a == _afterJSInitiatedRequestCallback(World, "r1")
  IN /\ _scheduleTimerTasks
     /\ _firstConsistentlyInteractiveResolver # null
     /\ timers # {}
     /\ "r1" \in DOMAIN _incompleteJSInitiatedRequestStartTimes
     /\ a._incompleteJSInitiatedRequestStartTimes
          # _incompleteJSInitiatedRequestStartTimes
     /\ a.timers = timers
     /\ a._timerActivationTime = _timerActivationTime

\* C19: an enabled detector that has not resolved has exactly one timer
\* armed, in every state between handlers.
C19_NoStall ==
  (_scheduleTimerTasks /\ ~Resolved) => Cardinality(timers) = 1

\* C20: a check in which the engine returns a result that reaches the
\* fulfil step finds a resolver installed.
C20_ResolverAvailable ==
  [][\A maybeFCI \in EngineValues :
       (TimerFireReturning(maybeFCI) /\ Truthy(maybeFCI))
         => _firstConsistentlyInteractiveResolver # null]_vars
\* C18: getFirstConsistentlyInteractive() on a page that has not loaded
\* changes neither the enabled flag nor the timers nor _timerActivationTime
\* and registers one load listener; while the page stays unloaded, only a
\* direct startSchedulingTimerTasks() call enables the detector, and while
\* it has never been enabled no timer is live; the load event with a
\* listener registered, and getFirstConsistentlyInteractive() on a loaded
\* page, enable the detector and, when no check was scheduled for a time
\* above 0 before, arm one timer with _timerActivationTime = 0.
C18_LoadGating ==
  /\ [](LET g == getFirstConsistentlyInteractive(World)
            l == runLoadListeners([World EXCEPT !.readyState = "complete"],
                                  loadListeners)
            first == {[id |-> NewestTimerId, due |-> now]}
        IN /\ readyState = "loading" =>
                /\ g._scheduleTimerTasks = _scheduleTimerTasks
                /\ g.timers = timers
                /\ g._timerId = _timerId
                /\ g._timerActivationTime = _timerActivationTime
                /\ g.loadListeners = loadListeners + 1
           /\ readyState = "complete" =>
                /\ g._scheduleTimerTasks
                /\ g.loadListeners = loadListeners
                /\ _timerActivationTime <= 0 =>
                     g._timerActivationTime = 0 /\ g.timers = first
           /\ (readyState = "loading" /\ loadListeners > 0) =>
                /\ l._scheduleTimerTasks
                /\ _timerActivationTime <= 0 =>
                     l._timerActivationTime = 0 /\ l.timers = first
           /\ _timerActivationTime = NegInfinity =>
                ~_scheduleTimerTasks /\ timers = {})
  /\ [][(readyState' = "loading" /\ ~_scheduleTimerTasks
           /\ _scheduleTimerTasks')
        => StartSchedulingTimerTasks]_vars

\* C18 witness: a page that has loaded after getFirstConsistentlyInteractive()
\* registered its listener, the detector never disabled, enabled with the
\* first check armed at this reading of the clock for target time 0.
C18_Witness ==
  /\ readyState = "complete"
  /\ loadListeners = 1
  /\ promises = <<Pending>>
  /\ disabledFrom = "never"
  /\ _scheduleTimerTasks
  /\ _timerActivationTime = 0
  /\ timers = {[id |-> NewestTimerId, due |-> now]}
====
